---- MODULE Spec2Model ----
(***************************************************************************)
(* Model of the python-nftables-tutorial scripts:                          *)
(*   nft-delete-rule.py, nft-read-counters-and-quotas.py,                  *)
(*   nft-read-json.py, nft-load-example-ruleset.py.                        *)
(* The libnftables engine (nft.cmd, nft.json_cmd, nft.json_validate) is    *)
(* the environment: its return values are inputs of the actions.           *)
(***************************************************************************)
EXTENDS Integers, Sequences, FiniteSets, TLC

VARIABLES
    script,                      \* which script this process runs
    pc,                          \* position of the process in its main()
    kernel_ruleset,              \* decoded document returned by the reader
    info_about_rules_to_delete,  \* result of search_rules_with_counter
    delete_rules_command,        \* document built in STEP 3 of nft-delete-rule.py
    calls,                       \* calls made on the Nftables object, in order
    stdout,                      \* lines printed, in order
    exit_status,                 \* process exit status once pc = "done"
    emptyExit                    \* per reader: exit statuses taken on empty output

vars == <<script, pc, kernel_ruleset, info_about_rules_to_delete,
          delete_rules_command, calls, stdout, exit_status, emptyExit>>

----------------------------------------------------------------------------
(* Bounds of the explored inputs *)

MaxDoc == 2        \* entries in an engine listing
MaxExpr == 2       \* expressions in a rule
MaxVersion == 2    \* json_schema_version 1..MaxVersion

SeqUpTo(S, n) == UNION {[1..k -> S] : k \in 0..n}

----------------------------------------------------------------------------
(* JSON values as Python sees them after json.loads *)

\* Python None (JSON null)
None == [None |-> TRUE]

\* dict.get(key): the value, or None when the key is absent
Get(d, k) == IF k \in DOMAIN d THEN d[k] ELSE None

\* Python truthiness of what dict.get returned: None and {} are falsy
Falsy(v) == v = None \/ DOMAIN v = {}

MatchValue == [op |-> "==",
               left |-> [payload |-> [protocol |-> "tcp", field |-> "dport"]],
               right |-> 22]
CounterValue == [packets |-> 0, bytes |-> 0]

\* expression entries of a rule: tagged unions with one key
ExprEntries == {[match |-> MatchValue],
                [counter |-> CounterValue], [counter |-> None]}

\* the handles of the rules of a chain (those of the documented delete command)
Handles == {3, 4}

Exprs == SeqUpTo(ExprEntries, MaxExpr)

RuleEntries == {[rule |-> [family |-> "inet", table |-> "mytable",
                           chain |-> "mychain", handle |-> h, expr |-> e]] :
                    h \in Handles, e \in Exprs}

MetainfoEntry(v) == [metainfo |-> [json_schema_version |-> v]]
TableEntry == [table |-> [family |-> "inet", name |-> "mytable", handle |-> 1]]
ChainEntry == [chain |-> [family |-> "inet", table |-> "mytable",
                          name |-> "mychain", handle |-> 1]]

RulesetEntries == {MetainfoEntry(1), TableEntry, ChainEntry} \cup RuleEntries

IsRuleEntry(o) == "rule" \in DOMAIN o

\* the kernel gives each rule of a chain its own handle
DistinctHandles(s) ==
    \A a, b \in 1..Len(s) :
        (a # b /\ IsRuleEntry(s[a]) /\ IsRuleEntry(s[b]))
            => s[a].rule.handle # s[b].rule.handle

ExampleRule(h, e) == [rule |-> [family |-> "inet", table |-> "mytable",
                                chain |-> "mychain", handle |-> h, expr |-> e]]

\* the listings of the worked examples: the ruleset the script loads, as the
\* kernel lists it back (three rules, the second with a counter), and a chain
\* whose rules 3 and 4 both have a counter
ExampleListings ==
    { <<MetainfoEntry(1), TableEntry, ChainEntry,
        ExampleRule(1, <<[match |-> MatchValue], [accept |-> None]>>),
        ExampleRule(2, <<[match |-> MatchValue], [counter |-> CounterValue],
                         [accept |-> None]>>),
        ExampleRule(3, <<[match |-> MatchValue], [accept |-> None]>>)>>,
      <<MetainfoEntry(1), TableEntry, ChainEntry,
        ExampleRule(3, <<[counter |-> CounterValue], [accept |-> None]>>),
        ExampleRule(4, <<[counter |-> CounterValue], [accept |-> None]>>)>> }

\* decoded output of "list ruleset"
RulesetDocs ==
    {[nftables |-> s] :
        s \in {t \in SeqUpTo(RulesetEntries, MaxDoc) : DistinctHandles(t)}
              \cup ExampleListings}

\* decoded output of "list counters" / "list quotas"
CounterEntry == [counter |-> [name |-> "mycounter", family |-> "ip",
                              table |-> "mytable", packets |-> 0, bytes |-> 0]]
QuotaEntry == [quota |-> [name |-> "myquota", family |-> "ip",
                          table |-> "mytable", used |-> 0, bytes |-> 26214400,
                          inv |-> FALSE]]
ObjectEntries == {MetainfoEntry(v) : v \in 1..MaxVersion}
                     \cup {CounterEntry, QuotaEntry}
ObjectDocs == {[nftables |-> s] : s \in SeqUpTo(ObjectEntries, MaxDoc)}

----------------------------------------------------------------------------
(* What the engine hands back *)

\* rc of nft.cmd / nft.json_cmd
ReturnCodes == {0, 1}

\* the output string: its length, whether json.loads accepts it, and the
\* value json.loads yields
EmptyOutput == [len |-> 0, decodes |-> FALSE, value |-> None]
GarbageOutput == [len |-> 1, decodes |-> FALSE, value |-> None]
JsonOutput(doc) == [len |-> 1, decodes |-> TRUE, value |-> doc]

ListRulesetOutputs == {EmptyOutput, GarbageOutput}
                          \cup {JsonOutput(d) : d \in RulesetDocs}
ListObjectsOutputs == {EmptyOutput, GarbageOutput}
                          \cup {JsonOutput(d) : d \in ObjectDocs}
JsonCmdOutputs == {EmptyOutput, GarbageOutput}

Scripts == {"nft-delete-rule", "nft-read-counters-and-quotas",
            "nft-read-json", "nft-load-example-ruleset"}

\* the three places that read a listing from the engine
Readers == {"get_ruleset", "nft_cmd", "read_json_main"}

----------------------------------------------------------------------------
(* nft-delete-rule.py: the literal ruleset *)

LoadMatch(proto, port) ==
    [match |-> [op |-> "==",
                left |-> [payload |-> [protocol |-> proto, field |-> "dport"]],
                right |-> port]]

AddRule(e) == [add |-> [rule |-> [family |-> "inet", table |-> "mytable",
                                  chain |-> "mychain", expr |-> e]]]

NFTABLES_RULESET_JSON ==
    [nftables |-> <<
        [flush |-> [ruleset |-> None]],
        [add |-> [table |-> [family |-> "inet", name |-> "mytable"]]],
        [add |-> [chain |-> [family |-> "inet", table |-> "mytable",
                             name |-> "mychain"]]],
        AddRule(<<LoadMatch("udp", 53), [accept |-> None]>>),
        AddRule(<<LoadMatch("tcp", 22), [counter |-> None], [accept |-> None]>>),
        AddRule(<<LoadMatch("tcp", 80), [accept |-> None]>>) >>]

----------------------------------------------------------------------------
(* nft-delete-rule.py: the pure part *)

\* for expr in rule["expr"]: if expr.get("counter") is not None: return True
rule_has_counter(rule) ==
    \E j \in 1..Len(rule.expr) : Get(rule.expr[j], "counter") # None

\* variant: the whole rule is handed on instead of its four addressing fields
RuleInfoWholeRule(rule) == rule

\* the dict(...) appended for a matched rule
RuleInfo(rule) == [family |-> rule.family, table |-> rule.table,
                   chain |-> rule.chain, handle |-> rule.handle]

RECURSIVE SearchFrom(_, _, _)
\* the loop of search_rules_with_counter from entry i on, ret so far
SearchFrom(objects, i, ret) ==
    IF i > Len(objects) THEN ret
    ELSE LET rule == Get(objects[i], "rule") IN
         IF Falsy(rule) THEN SearchFrom(objects, i + 1, ret)
         ELSE IF ~rule_has_counter(rule) THEN SearchFrom(objects, i + 1, ret)
         ELSE SearchFrom(objects, i + 1, Append(ret, RuleInfo(rule)))

search_rules_with_counter(data_structure) ==
    SearchFrom(data_structure.nftables, 1, <<>>)

\* the schema version the delete command announces
JsonSchemaVersion == 1

\* the entry appended for one rule_info
DeleteEntry(rule_info) == [delete |-> rule_info]

RECURSIVE AppendDeletesInFront(_, _, _)
\* variant: each directive is inserted right after the metainfo entry, which
\* reverses the order of the directives
AppendDeletesInFront(entries, infos, i) ==
    IF i > Len(infos) THEN entries
    ELSE AppendDeletesInFront(<<Head(entries), DeleteEntry(infos[i])>> \o Tail(entries),
                              infos, i + 1)

RECURSIVE AppendDeletes(_, _, _)
\* the loop over info_about_rules_to_delete from index i on
AppendDeletes(entries, infos, i) ==
    IF i > Len(infos) THEN entries
    ELSE AppendDeletes(Append(entries, DeleteEntry(infos[i])), infos, i + 1)

\* variant: nothing at all is emitted when there is nothing to delete
build_delete_command_skip_empty(infos) ==
    IF infos = <<>>
    THEN [nftables |-> <<>>]
    ELSE [nftables |->
            AppendDeletes(<<[metainfo |-> [json_schema_version |-> JsonSchemaVersion]]>>,
                          infos, 1)]

\* STEP 3 of main, up to the validation
build_delete_command(infos) ==
    [nftables |->
        AppendDeletes(<<[metainfo |-> [json_schema_version |-> JsonSchemaVersion]]>>,
                      infos, 1)]

----------------------------------------------------------------------------
(* nft-read-counters-and-quotas.py: the pure part *)

RECURSIVE FindFrom(_, _, _, _)
FindFrom(ruleset, type, i, acc) ==
    IF i > Len(ruleset) THEN acc
    ELSE IF type \in DOMAIN ruleset[i]
         THEN FindFrom(ruleset, type, i + 1, Append(acc, ruleset[i][type]))
         ELSE FindFrom(ruleset, type, i + 1, acc)

\* [o[type] for o in ruleset if type in o]
find_objects(ruleset, type) == FindFrom(ruleset, type, 1, <<>>)

\* the version this reader understands
KnownSchemaVersion == 1

RECURSIVE VersionWarningsFromKnown(_, _)
\* variant: the comparison is >= instead of >
VersionWarningsFromKnown(metainfos, i) ==
    IF i > Len(metainfos) THEN <<>>
    ELSE (IF metainfos[i].json_schema_version >= KnownSchemaVersion
          THEN <<"WARNING: we might not understand the JSON produced by libnftables">>
          ELSE <<>>) \o VersionWarningsFromKnown(metainfos, i + 1)

RECURSIVE VersionWarnings(_, _)
\* the lines printed by the loop over the metainfo objects
VersionWarnings(metainfos, i) ==
    IF i > Len(metainfos) THEN <<>>
    ELSE (IF metainfos[i].json_schema_version > KnownSchemaVersion
          THEN <<"WARNING: we might not understand the JSON produced by libnftables">>
          ELSE <<>>) \o VersionWarnings(metainfos, i + 1)

\* one printed line per listed object
ObjectLines(objects, line) == [k \in 1..Len(objects) |-> line]

----------------------------------------------------------------------------
(* Process steps *)

\* one call on the Nftables object: what was called, on what, and what came
\* back (json_validate: whether it accepted; cmd, json_cmd: rc and output)
Call(fn, arg, result) == [fn |-> fn, arg |-> arg, result |-> result]
Result(rc, output) == [rc |-> rc, output |-> output]

\* exit(n), or an uncaught exception (status 1)
Exit(n) == pc' = "done" /\ exit_status' = n

Init ==
    /\ script \in Scripts
    /\ pc = "start"
    /\ kernel_ruleset = None
    /\ info_about_rules_to_delete = <<>>
    /\ delete_rules_command = None
    /\ calls = <<>>
    /\ stdout = <<>>
    /\ exit_status = "running"
    /\ emptyExit = [r \in Readers |-> {}]

\* variant: the failure of json_cmd is reported but the exit(1) is missing
load_ruleset_no_exit ==
    /\ script = "nft-delete-rule" /\ pc = "start"
    /\ \E valid \in BOOLEAN, rc \in ReturnCodes, output \in JsonCmdOutputs :
           /\ LET data_structure == NFTABLES_RULESET_JSON IN
              IF ~valid
              THEN /\ calls' = Append(calls, Call("json_validate", data_structure, FALSE))
                   /\ stdout' = Append(stdout, "ERROR: failed validating JSON schema")
                   /\ Exit(1)
              ELSE /\ calls' = calls \o <<Call("json_validate", data_structure, TRUE),
                                          Call("json_cmd", data_structure, Result(rc, output))>>
                   /\ stdout' = IF rc # 0
                                THEN Append(stdout, "ERROR: running JSON cmd")
                                ELSE IF output.len # 0
                                     THEN Append(stdout, "WARNING: output")
                                     ELSE stdout
                   /\ pc' = "get_ruleset"
                   /\ UNCHANGED exit_status
    /\ UNCHANGED <<script, kernel_ruleset, info_about_rules_to_delete,
                   delete_rules_command, emptyExit>>

\* load_ruleset(nft), STEP 1 of nft-delete-rule.py
load_ruleset ==
    /\ script = "nft-delete-rule" /\ pc = "start"
    /\ \E valid \in BOOLEAN, rc \in ReturnCodes, output \in JsonCmdOutputs :
           /\ LET data_structure == NFTABLES_RULESET_JSON IN
              IF ~valid
              THEN /\ calls' = Append(calls, Call("json_validate", data_structure, FALSE))
                   /\ stdout' = Append(stdout, "ERROR: failed validating JSON schema")
                   /\ Exit(1)
              ELSE /\ calls' = calls \o <<Call("json_validate", data_structure, TRUE),
                                          Call("json_cmd", data_structure, Result(rc, output))>>
                   /\ IF rc # 0
                      THEN /\ stdout' = Append(stdout, "ERROR: running JSON cmd")
                           /\ Exit(1)
                      ELSE /\ stdout' = IF output.len # 0
                                        THEN Append(stdout, "WARNING: output")
                                        ELSE stdout
                           /\ pc' = "get_ruleset"
                           /\ UNCHANGED exit_status
    /\ UNCHANGED <<script, kernel_ruleset, info_about_rules_to_delete,
                   delete_rules_command, emptyExit>>

\* variant: empty output ends the run with exit(1)
get_ruleset_empty_is_failure(outputs) ==
    /\ script = "nft-delete-rule" /\ pc = "get_ruleset"
    /\ \E rc \in ReturnCodes, output \in outputs, valid \in BOOLEAN :
           /\ calls' = Append(calls, Call("cmd", "list ruleset", Result(rc, output)))
                          \o (IF rc = 0 /\ output.decodes
                              THEN <<Call("json_validate", output.value, valid)>>
                              ELSE <<>>)
           /\ IF rc = 0 /\ output.decodes /\ valid
              THEN /\ kernel_ruleset' = output.value
                   /\ pc' = "search"
                   /\ UNCHANGED <<stdout, exit_status, emptyExit>>
              ELSE /\ stdout' = Append(stdout, "ERROR")
                   /\ Exit(1)
                   /\ emptyExit' = IF rc = 0 /\ output.len = 0
                                   THEN [emptyExit EXCEPT !["get_ruleset"] = @ \cup {1}]
                                   ELSE emptyExit
                   /\ UNCHANGED kernel_ruleset
    /\ UNCHANGED <<script, info_about_rules_to_delete, delete_rules_command>>

\* get_ruleset(nft), first half of STEP 2
get_ruleset(outputs) ==
    /\ script = "nft-delete-rule" /\ pc = "get_ruleset"
    /\ \E rc \in ReturnCodes, output \in outputs, valid \in BOOLEAN :
           /\ IF rc # 0
              THEN /\ calls' = Append(calls, Call("cmd", "list ruleset", Result(rc, output)))
                   /\ stdout' = stdout \o <<"ERROR: running cmd 'list ruleset'", "error">>
                   /\ Exit(1)
                   /\ UNCHANGED <<kernel_ruleset, emptyExit>>
              ELSE IF output.len = 0
              THEN /\ calls' = Append(calls, Call("cmd", "list ruleset", Result(rc, output)))
                   /\ stdout' = Append(stdout, "ERROR: no output from libnftables")
                   /\ Exit(0)
                   /\ emptyExit' = [emptyExit EXCEPT !["get_ruleset"] = @ \cup {0}]
                   /\ UNCHANGED kernel_ruleset
              ELSE IF ~output.decodes
              THEN /\ calls' = Append(calls, Call("cmd", "list ruleset", Result(rc, output)))
                   /\ Exit(1)
                   /\ UNCHANGED <<stdout, kernel_ruleset, emptyExit>>
              ELSE IF ~valid
              THEN /\ calls' = calls \o <<Call("cmd", "list ruleset", Result(rc, output)),
                                          Call("json_validate", output.value, FALSE)>>
                   /\ stdout' = Append(stdout, "ERROR: failed validating json schema")
                   /\ Exit(1)
                   /\ UNCHANGED <<kernel_ruleset, emptyExit>>
              ELSE /\ calls' = calls \o <<Call("cmd", "list ruleset", Result(rc, output)),
                                          Call("json_validate", output.value, TRUE)>>
                   /\ kernel_ruleset' = output.value
                   /\ pc' = "search"
                   /\ UNCHANGED <<stdout, exit_status, emptyExit>>
    /\ UNCHANGED <<script, info_about_rules_to_delete, delete_rules_command>>

\* variant: the scan removes the entries it matched from the document
main_search_consuming ==
    /\ script = "nft-delete-rule" /\ pc = "search"
    /\ info_about_rules_to_delete' = search_rules_with_counter(kernel_ruleset)
    /\ kernel_ruleset' =
           [nftables |->
               SelectSeq(kernel_ruleset.nftables,
                         LAMBDA o : ~(IsRuleEntry(o) /\ rule_has_counter(o.rule)))]
    /\ pc' = "build"
    /\ UNCHANGED <<script, delete_rules_command, calls, stdout, exit_status,
                   emptyExit>>

\* info_about_rules_to_delete = search_rules_with_counter(kernel_ruleset)
main_search ==
    /\ script = "nft-delete-rule" /\ pc = "search"
    /\ info_about_rules_to_delete' = search_rules_with_counter(kernel_ruleset)
    /\ pc' = "build"
    /\ UNCHANGED <<script, kernel_ruleset, delete_rules_command, calls, stdout,
                   exit_status, emptyExit>>

\* STEP 3: generate the command
main_build ==
    /\ script = "nft-delete-rule" /\ pc = "build"
    /\ delete_rules_command' = build_delete_command(info_about_rules_to_delete)
    /\ pc' = "delete"
    /\ UNCHANGED <<script, kernel_ruleset, info_about_rules_to_delete, calls,
                   stdout, exit_status, emptyExit>>

\* STEP 3: validate and run the command, then exit(0)
main_delete ==
    /\ script = "nft-delete-rule" /\ pc = "delete"
    /\ \E valid \in BOOLEAN, rc \in ReturnCodes, output \in JsonCmdOutputs :
           /\ IF ~valid
              THEN /\ calls' = Append(calls, Call("json_validate", delete_rules_command, FALSE))
                   /\ stdout' = Append(stdout, "ERROR: failed validating JSON schema")
                   /\ Exit(1)
              ELSE /\ calls' = calls \o <<Call("json_validate", delete_rules_command, TRUE),
                                          Call("json_cmd", delete_rules_command, Result(rc, output))>>
                   /\ IF rc # 0
                      THEN /\ stdout' = Append(stdout, "ERROR: running JSON cmd")
                           /\ Exit(1)
                      ELSE /\ stdout' = IF output.len # 0
                                        THEN Append(stdout, "WARNING: output")
                                        ELSE stdout
                           /\ Exit(0)
    /\ UNCHANGED <<script, kernel_ruleset, info_about_rules_to_delete,
                   delete_rules_command, emptyExit>>

----------------------------------------------------------------------------
(* nft-read-counters-and-quotas.py *)

\* nft_cmd(nftlib, cmd) followed by the print loop of main over the objects
\* of the given type; last tells whether main ends after the loop
nft_cmd(cmd, type, line, last, outputs) ==
    \E rc \in ReturnCodes, output \in outputs :
       /\ calls' = Append(calls, Call("cmd", cmd, Result(rc, output)))
       /\ IF rc # 0
          THEN /\ stdout' = stdout \o <<"ERROR: running cmd", "error">>
               /\ Exit(1)
               /\ UNCHANGED <<kernel_ruleset, emptyExit>>
          ELSE IF output.len = 0
          THEN /\ stdout' = Append(stdout, "ERROR: no output from libnftables")
               /\ Exit(0)
               /\ emptyExit' = [emptyExit EXCEPT !["nft_cmd"] = @ \cup {0}]
               /\ UNCHANGED kernel_ruleset
          ELSE IF ~output.decodes
          THEN /\ Exit(1)
               /\ UNCHANGED <<stdout, kernel_ruleset, emptyExit>>
          ELSE LET ruleset == output.value.nftables IN
               /\ kernel_ruleset' = ruleset
               /\ stdout' = stdout
                     \o VersionWarnings(find_objects(ruleset, "metainfo"), 1)
                     \o ObjectLines(find_objects(ruleset, type), line)
               /\ IF last THEN Exit(0)
                          ELSE pc' = "list quotas" /\ UNCHANGED exit_status
               /\ UNCHANGED emptyExit

\* main: list all counters and print them
main_list_counters(outputs) ==
    /\ script = "nft-read-counters-and-quotas" /\ pc = "start"
    /\ nft_cmd("list counters", "counter", "Counter", FALSE, outputs)
    /\ UNCHANGED <<script, info_about_rules_to_delete, delete_rules_command>>

\* main: list all quotas and print them; main returns, exit status 0
main_list_quotas(outputs) ==
    /\ script = "nft-read-counters-and-quotas" /\ pc = "list quotas"
    /\ nft_cmd("list quotas", "quota", "Quota", TRUE, outputs)
    /\ UNCHANGED <<script, info_about_rules_to_delete, delete_rules_command>>

----------------------------------------------------------------------------
(* nft-read-json.py *)

read_json_main(outputs) ==
    /\ script = "nft-read-json" /\ pc = "start"
    /\ \E rc \in ReturnCodes, output \in outputs :
       /\ calls' = Append(calls, Call("cmd", "list ruleset", Result(rc, output)))
       /\ IF rc # 0
          THEN /\ stdout' = stdout \o <<"ERROR: running cmd 'list ruleset'", "error">>
               /\ Exit(1)
               /\ UNCHANGED <<kernel_ruleset, emptyExit>>
          ELSE IF output.len = 0
          THEN /\ stdout' = Append(stdout, "ERROR: no output from libnftables")
               /\ Exit(0)
               /\ emptyExit' = [emptyExit EXCEPT !["read_json_main"] = @ \cup {0}]
               /\ UNCHANGED kernel_ruleset
          ELSE IF ~output.decodes
          THEN /\ stdout' = Append(stdout, "raw libnftables JSON output")
               /\ Exit(1)
               /\ UNCHANGED <<kernel_ruleset, emptyExit>>
          ELSE /\ stdout' = stdout \o <<"raw libnftables JSON output",
                                        "native python data structure">>
               /\ kernel_ruleset' = output.value
               /\ Exit(0)
               /\ UNCHANGED emptyExit
    /\ UNCHANGED <<script, info_about_rules_to_delete, delete_rules_command>>

----------------------------------------------------------------------------
(* nft-load-example-ruleset.py *)

NFTABLES_JSON ==
    [nftables |-> <<
        [flush |-> [ruleset |-> None]],
        [add |-> [table |-> [family |-> "inet", name |-> "mytable"]]],
        [add |-> [chain |-> [family |-> "inet", table |-> "mytable",
                             chain |-> "mychain"]]],
        AddRule(<<[match |-> [left |-> [payload |-> [protocol |-> "tcp",
                                                     field |-> "dport"]],
                              right |-> 22]],
                  [accept |-> None]>>) >>]

load_example_main ==
    /\ script = "nft-load-example-ruleset" /\ pc = "start"
    /\ \E valid \in BOOLEAN, rc \in ReturnCodes, output \in JsonCmdOutputs :
       LET data_structure == NFTABLES_JSON IN
       IF ~valid
       THEN /\ calls' = Append(calls, Call("json_validate", data_structure, FALSE))
            /\ stdout' = Append(stdout, "ERROR: failed validating json schema")
            /\ Exit(1)
       ELSE /\ calls' = calls \o <<Call("json_validate", data_structure, TRUE),
                                   Call("json_cmd", data_structure, Result(rc, output))>>
            /\ IF rc # 0
               THEN /\ stdout' = stdout \o <<"INFO: running json cmd",
                                             "ERROR: running json cmd">>
                    /\ Exit(1)
               ELSE /\ stdout' = IF output.len # 0
                                 THEN stdout \o <<"INFO: running json cmd",
                                                  "WARNING: output">>
                                 ELSE Append(stdout, "INFO: running json cmd")
                    /\ Exit(0)
    /\ UNCHANGED <<script, kernel_ruleset, info_about_rules_to_delete,
                   delete_rules_command, emptyExit>>

----------------------------------------------------------------------------
(* One run of one script *)

Next ==
    \/ load_ruleset
    \/ get_ruleset(ListRulesetOutputs)
    \/ main_search
    \/ main_build
    \/ main_delete
    \/ main_list_counters(ListObjectsOutputs)
    \/ main_list_quotas(ListObjectsOutputs)
    \/ read_json_main(ListRulesetOutputs)
    \/ load_example_main

Spec == Init /\ [][Next]_vars

----------------------------------------------------------------------------
(* A series of runs: each script is a process of its own and keeps nothing  *)
(* from the run before; emptyExit records what the runs so far did on empty *)
(* output.                                                                  *)

\* outputs the engine gives in the series: nothing, garbage, or one of the
\* worked examples
SeriesRulesetOutputs ==
    {EmptyOutput, GarbageOutput}
        \cup {JsonOutput([nftables |-> s]) : s \in ExampleListings}
SeriesObjectsOutputs ==
    {EmptyOutput, GarbageOutput,
     JsonOutput([nftables |-> <<MetainfoEntry(1), CounterEntry, QuotaEntry>>])}

\* the shell starts another script once the running one has exited
Restart ==
    /\ pc = "done"
    /\ script' \in Scripts
    /\ pc' = "start"
    /\ kernel_ruleset' = None
    /\ info_about_rules_to_delete' = <<>>
    /\ delete_rules_command' = None
    /\ calls' = <<>>
    /\ stdout' = <<>>
    /\ exit_status' = "running"
    /\ UNCHANGED emptyExit

NextSeries ==
    \/ load_ruleset
    \/ get_ruleset(SeriesRulesetOutputs)
    \/ main_search
    \/ main_build
    \/ main_delete
    \/ main_list_counters(SeriesObjectsOutputs)
    \/ main_list_quotas(SeriesObjectsOutputs)
    \/ read_json_main(SeriesRulesetOutputs)
    \/ load_example_main
    \/ Restart

SpecSeries == Init /\ [][NextSeries]_vars

----------------------------------------------------------------------------
(* Properties *)

Range(f) == {f[k] : k \in DOMAIN f}

SelectorFields == {"family", "table", "chain", "handle"}

\* nft-delete-rule.py has scanned the listing
Searched == script = "nft-delete-rule" /\ pc \in {"build", "delete"}

\* nft-delete-rule.py has built the delete command
Built == script = "nft-delete-rule" /\ pc \in {"delete", "done"}
             /\ delete_rules_command # None

\* some entry of the rule's expr carries the tag "counter", whatever its value
TaggedCounter(rule) ==
    \E j \in 1..Len(rule.expr) : "counter" \in DOMAIN rule.expr[j]

\* the selectors of the rule entries with a counter-tagged expression, in
\* document order
TaggedSelectors(objects) ==
    LET hits == SelectSeq(objects,
                          LAMBDA o : IsRuleEntry(o) /\ TaggedCounter(o.rule))
    IN [k \in 1..Len(hits) |->
           [family |-> hits[k].rule.family, table |-> hits[k].rule.table,
            chain |-> hits[k].rule.chain, handle |-> hits[k].rule.handle]]

\* C1: the scan returns exactly the selectors of the rule entries whose expr
\* has an entry tagged "counter", one per rule, in document order; other
\* entries are skipped, so a listing without rules gives the empty sequence.
C1_SearchReturnsTaggedRules ==
    Searched =>
        info_about_rules_to_delete = TaggedSelectors(kernel_ruleset.nftables)

\* C2: rule_has_counter(rule) holds exactly when some entry of rule.expr
\* carries the tag "counter", whatever the value under it ({"counter": null}
\* included); a rule with an empty expr never matches.
C2_HasCounterIffTagged ==
    Searched =>
        \A k \in 1..Len(kernel_ruleset.nftables) :
            LET o == kernel_ruleset.nftables[k] IN
            IsRuleEntry(o) =>
                /\ rule_has_counter(o.rule) <=> TaggedCounter(o.rule)
                /\ (o.rule.expr = <<>> => ~rule_has_counter(o.rule))

\* C3: every deletion directive of the delete command has the documented
\* shape {"delete": {"rule": {family, table, chain, handle}}}.
C3_DeleteDirectiveShape ==
    Built =>
        \A k \in 2..Len(delete_rules_command.nftables) :
            LET e == delete_rules_command.nftables[k] IN
            /\ DOMAIN e = {"delete"}
            /\ DOMAIN e.delete = {"rule"}
            /\ DOMAIN e.delete.rule = SelectorFields

\* the selector a deletion directive carries
DirectiveSelector(e) ==
    IF "rule" \in DOMAIN e.delete THEN e.delete.rule ELSE e.delete

\* C4: the delete command has exactly one deletion directive per selector, in
\* the order of the selectors and with the same family, table, chain and
\* handle: the selectors of its directives are the input sequence.
C4_DeleteCommandRoundTrip ==
    Built =>
        LET entries == delete_rules_command.nftables IN
        /\ Len(entries) = Len(info_about_rules_to_delete) + 1
        /\ \A k \in 2..Len(entries) : "delete" \in DOMAIN entries[k]
        /\ [k \in 1..(Len(entries) - 1) |-> DirectiveSelector(entries[k + 1])]
               = info_about_rules_to_delete

\* two different rules matched and the command was built from them
C4_Witness ==
    /\ Built
    /\ Len(info_about_rules_to_delete) >= 2
    /\ info_about_rules_to_delete[1] # info_about_rules_to_delete[2]

\* C5: the delete command starts with the metainfo entry
\* (json_schema_version = 1) and has exactly one metainfo entry; when no rule
\* matched it is that one entry and nothing else.
C5_MetainfoFirstAndOnce ==
    Built =>
        LET entries == delete_rules_command.nftables IN
        /\ Len(entries) >= 1
        /\ entries[1] = [metainfo |-> [json_schema_version |-> 1]]
        /\ Cardinality({k \in 1..Len(entries) : "metainfo" \in DOMAIN entries[k]}) = 1
        /\ (info_about_rules_to_delete = <<>> => Len(entries) = 1)

\* the command was built although no rule matched
C5_Witness ==
    /\ Built
    /\ info_about_rules_to_delete = <<>>
    /\ \E k \in 1..Len(kernel_ruleset.nftables) :
           IsRuleEntry(kernel_ruleset.nftables[k])

\* C6: every selector returned by the scan has exactly the fields family,
\* table, chain and handle, each with the value of a matched rule entry of
\* the listing, and nothing else of the rule.
C6_SelectorHasFourFields ==
    Searched =>
        \A k \in 1..Len(info_about_rules_to_delete) :
            LET sel == info_about_rules_to_delete[k] IN
            /\ DOMAIN sel = SelectorFields
            /\ \E j \in 1..Len(kernel_ruleset.nftables) :
                   LET o == kernel_ruleset.nftables[j] IN
                   /\ IsRuleEntry(o)
                   /\ \E x \in 1..Len(o.rule.expr) :
                          /\ "counter" \in DOMAIN o.rule.expr[x]
                          /\ o.rule.expr[x].counter # None
                   /\ sel.family = o.rule.family
                   /\ sel.table = o.rule.table
                   /\ sel.chain = o.rule.chain
                   /\ sel.handle = o.rule.handle

\* the scan returned a selector for a rule that has more than a counter
C6_Witness ==
    /\ Searched
    /\ Len(info_about_rules_to_delete) = 1
    /\ \E j \in 1..Len(kernel_ruleset.nftables) :
           /\ IsRuleEntry(kernel_ruleset.nftables[j])
           /\ Len(kernel_ruleset.nftables[j].rule.expr) >= 2
           /\ rule_has_counter(kernel_ruleset.nftables[j].rule)

\* C7: once get_ruleset has returned the listing, scanning it, building the
\* delete command and running it leave the listing as it was.
C7_RulesetNotMutated ==
    [][(script = "nft-delete-rule" /\ pc \in {"search", "build", "delete"})
          => kernel_ruleset' = kernel_ruleset]_vars

\* a listing with a match has been scanned and the command built and run
C7_Witness ==
    /\ script = "nft-delete-rule" /\ pc = "done"
    /\ delete_rules_command # None
    /\ Len(delete_rules_command.nftables) >= 2
    /\ Len(kernel_ruleset.nftables) >= 2

NewerSchema(ruleset) ==
    \E k \in 1..Len(ruleset) :
        /\ "metainfo" \in DOMAIN ruleset[k]
        /\ ruleset[k].metainfo.json_schema_version > 1

Warned ==
    "WARNING: we might not understand the JSON produced by libnftables"
        \in Range(stdout)

\* the k-th call was a listing that succeeded and whose output decoded
Listed(k) ==
    /\ calls[k].fn = "cmd"
    /\ calls[k].result.rc = 0
    /\ calls[k].result.output.decodes

\* C8: when a listing read by nft_cmd carries a metainfo entry with
\* json_schema_version > 1, nft_cmd warns and returns the decoded ruleset,
\* and the script goes on; when no listing carries one, there is no warning.
C8_NewerSchemaWarnsAndProceeds ==
    script = "nft-read-counters-and-quotas" =>
        /\ \A k \in 1..Len(calls) :
               (Listed(k) /\ NewerSchema(calls[k].result.output.value.nftables))
                   => /\ Warned
                      /\ k = Len(calls) =>
                            /\ kernel_ruleset = calls[k].result.output.value.nftables
                            /\ IF k = 1 THEN pc = "list quotas"
                                        ELSE pc = "done" /\ exit_status = 0
        /\ (\A k \in 1..Len(calls) :
                Listed(k) => ~NewerSchema(calls[k].result.output.value.nftables))
               => ~Warned

\* the first listing carried a newer schema version and the script is about
\* to list the quotas
C8_Witness ==
    /\ script = "nft-read-counters-and-quotas"
    /\ pc = "list quotas"
    /\ NewerSchema(kernel_ruleset)
    /\ Warned

\* the call raised or returned a non-zero rc
FailedCall(c) ==
    IF c.fn = "json_validate" THEN c.result = FALSE ELSE c.result.rc # 0

CallOrder == <<"json_validate", "json_cmd", "cmd",
               "json_validate", "json_validate", "json_cmd">>

\* C9: in nft-delete-rule.py json_cmd is only called on a document that
\* json_validate has just accepted, the calls come in the order load, list,
\* delete, and a validation that raises or a call with rc # 0 is the last
\* call of the run, which ends with exit status 1.
C9_ValidateBeforeRunAndStopOnFailure ==
    script = "nft-delete-rule" =>
        /\ Len(calls) <= Len(CallOrder)
        /\ \A k \in 1..Len(calls) :
               /\ calls[k].fn = CallOrder[k]
               /\ calls[k].fn = "json_cmd" =>
                      /\ calls[k - 1].fn = "json_validate"
                      /\ calls[k - 1].result = TRUE
                      /\ calls[k - 1].arg = calls[k].arg
               /\ FailedCall(calls[k]) =>
                      /\ k = Len(calls)
                      /\ pc = "done"
                      /\ exit_status = 1
        /\ Len(calls) >= 1 => calls[1].arg = NFTABLES_RULESET_JSON
        /\ Len(calls) >= 3 => calls[3].arg = "list ruleset"
        /\ Len(calls) >= 4 => calls[4].arg = calls[3].result.output.value
        /\ Len(calls) >= 5 => calls[5].arg = delete_rules_command

\* the run got as far as the delete command and the engine refused it
C9_Witness ==
    /\ script = "nft-delete-rule"
    /\ Len(calls) = 6
    /\ calls[6].result.rc # 0
    /\ exit_status = 1

\* the run ended on a listing that succeeded with empty output
EndedOnEmptyOutput ==
    /\ pc = "done"
    /\ Len(calls) >= 1
    /\ calls[Len(calls)].fn = "cmd"
    /\ calls[Len(calls)].result.rc = 0
    /\ calls[Len(calls)].result.output.len = 0

\* C10 as stated: the exit status on empty output depends on the command:
\* once every reader has met empty output, both 0 and 1 have been seen.
C10_EmptyOutputExitDiffers ==
    (\A r \in Readers : emptyExit[r] # {})
        => UNION {emptyExit[r] : r \in Readers} = {0, 1}

\* C10, amended: every reader (get_ruleset, nft_cmd, main of nft-read-json.py)
\* ends the run with exit status 0 when its listing succeeds with empty
\* output; empty output never gives exit status 1.
C10_EmptyOutputExitsZero ==
    /\ \A r \in Readers : emptyExit[r] \subseteq {0}
    /\ EndedOnEmptyOutput => exit_status = 0

\* all three readers have met empty output
C10_Witness ==
    /\ \A r \in Readers : emptyExit[r] = {0}
    /\ EndedOnEmptyOutput

====
